---- MODULE Spec2Model ----
(***************************************************************************)
(* AtomicSlice<T> (src/src/lib.rs): a double-buffered slice with a packed  *)
(* atomic status word, wait-free read() and a spin-gated write().          *)
(*                                                                         *)
(* Every SeqCst atomic operation of the code is one action.  The writer's  *)
(* element copy is one action per element.  A failed iteration of a spin   *)
(* loop (the gate compare_exchange, the drain load) changes nothing and is *)
(* a stuttering step; only the successful exit of the loop is an action.   *)
(* The debug_assert!s are not control flow (release build): they are       *)
(* stated as properties, never as guards.                                  *)
(*                                                                         *)
(* The status word keeps the byte layout of the code (8 bytes: selector in *)
(* byte 0, slice 1 use count in bytes 2..3, slice 2 use count in bytes     *)
(* 5..6, padding in bytes 1, 4 and 7) with a "byte" of ByteBits bits, so   *)
(* that a use count wraps after 2^(2*ByteBits) simultaneous reads instead  *)
(* of 2^16 and the wrap-around of the code is within reach of the model.   *)
(***************************************************************************)
EXTENDS Integers, Sequences, FiniteSets

\* -------------------------------------------------------------- bounds
\* Bits per byte of the status word (8 in the code).
ByteBits == 1
\* Total number of write() calls that pass the length check.
MaxWrites == 2
\* Number of read() calls that may be outstanding at once (in flight between
\* their two atomic operations, or returned and their guard not yet dropped).
MaxReads == 4

\* AtomicSlice::stride: the length of the vector given to new().
stride == 2
\* The element type T: two values, 0 being T::default().
Values == {0, 1}
\* The threads that call write().
Writers == {"w1", "w2"}
Slices == {0, 1}
Vers == 0 .. MaxWrites
\* A read is described by the slice it claimed and (history) the number of
\* selector flips that had happened at its fetch_add.
Kinds == Slices \X Vers
SeqsOfLen(n) == [1 .. n -> Values]
\* Arguments a caller may pass to write(): right and wrong lengths.
WriteInputs == SeqsOfLen(stride - 1) \cup SeqsOfLen(stride) \cup SeqsOfLen(stride + 1)

\* -------------------------------------------------- status word (u64)
WORD == 2 ^ (8 * ByteBits)
CURRENT_SLICE_MASK == 1
SLICE_1_INC == 2 ^ (2 * ByteBits)
SLICE_2_INC == 2 ^ (5 * ByteBits)
\* 0xFFFF: the largest value of a two-byte use count.
MaxCount == 2 ^ (2 * ByteBits) - 1
\* 0x00_FFFF_00_FFFF_00_01
VALID_STATUS_MASK == MaxCount * SLICE_2_INC + MaxCount * SLICE_1_INC + 1

RECURSIVE BitAnd(_, _)
BitAnd(a, b) ==
    IF a = 0 \/ b = 0 THEN 0
    ELSE (a % 2) * (b % 2) + 2 * BitAnd(a \div 2, b \div 2)

RECURSIVE BitOr(_, _)
BitOr(a, b) ==
    IF a = 0 THEN b
    ELSE IF b = 0 THEN a
    ELSE (IF a % 2 = 1 \/ b % 2 = 1 THEN 1 ELSE 0) + 2 * BitOr(a \div 2, b \div 2)

RECURSIVE BitXor(_, _)
BitXor(a, b) ==
    IF a = 0 THEN b
    ELSE IF b = 0 THEN a
    ELSE (IF a % 2 = b % 2 THEN 0 ELSE 1) + 2 * BitXor(a \div 2, b \div 2)

\* !x on a u64
BitNot(a) == (WORD - 1) - a
\* wrapping arithmetic of AtomicU64::fetch_add / fetch_sub
WrappingAdd(a, b) == (a + b) % WORD
WrappingSub(a, b) == (a + WORD - b) % WORD

INC_ALL_SLICES == BitOr(SLICE_1_INC, SLICE_2_INC)

\* Mutant of slice_1_use_count: the mask is one bit short.
slice_1_use_count_short(st) == BitAnd(st \div SLICE_1_INC, MaxCount \div 2)
slice_1_use_count(st) == BitAnd(st \div SLICE_1_INC, MaxCount)
slice_2_use_count(st) == BitAnd(st \div SLICE_2_INC, MaxCount)
slice_use_count(slice, st) ==
    IF slice = 0 THEN slice_1_use_count(st) ELSE slice_2_use_count(st)
valid_status(st) == BitAnd(st, BitNot(VALID_STATUS_MASK)) = 0
\* (status & CURRENT_SLICE_MASK) as u8
current_slice_of(st) == BitAnd(st, CURRENT_SLICE_MASK)
\* Mutant of inc_other_slice: read() gives back the count of its own slice.
inc_other_slice_own(slice) == IF slice = 0 THEN SLICE_1_INC ELSE SLICE_2_INC
\* read(): the increment of the slice that is not `slice`
inc_other_slice(slice) == IF slice = 0 THEN SLICE_2_INC ELSE SLICE_1_INC
\* Mutant of inc_slice: the guard releases the other slice's count.
inc_slice_swapped(slice) == IF slice = 0 THEN SLICE_2_INC ELSE SLICE_1_INC
\* drop(): the increment of the guard's own slice
inc_slice(slice) == IF slice = 0 THEN SLICE_1_INC ELSE SLICE_2_INC

\* The one-step protocol that read() is compared with: a read increments only
\* the use count of the slice that is current, in one atomic operation, and
\* its guard gives that count back.
one_step_inc(slice) == IF slice = 0 THEN SLICE_1_INC ELSE SLICE_2_INC
one_step_claim(st) == WrappingAdd(st, one_step_inc(current_slice_of(st)))
one_step_release(st, slice) == WrappingSub(st, one_step_inc(slice))

\* ------------------------------------------------------------- state
VARIABLES
    data,               \* the pool: 2 * stride elements (1-based here)
    status,             \* AtomicU64
    currently_writing,  \* AtomicBool, the write gate
    wpc,                \* each writer thread's position in write()
    wdata,              \* write(): the `data` argument
    next_i,             \* write(): the local next_i
    wk,                 \* write(): elements copied so far
    reading,            \* read() calls between fetch_add and fetch_sub, per kind
    guards,             \* live AtomicSliceReadGuards, per kind
    origin,             \* history: per pool element, the write that stored it
    flips,              \* history: number of selector flips so far
    pubdata,            \* history: the data published by the latest flip
    nwrites,            \* history: write() calls that passed the length check
    leaked,             \* guards forgotten without drop (mem::forget), per slice
    status1             \* reference: the status word of the one-step protocol

vars == <<data, status, currently_writing, wpc, wdata, next_i, wk,
          reading, guards, origin, flips, pubdata, nwrites, leaked, status1>>

\* origin of the default-filled second half after new()
DefaultFill == MaxWrites + 1

\* The pool positions of a slice, and its contents as a sequence.
SlicePos(slice, i) == slice * stride + i
SliceOf(pool, slice) == [i \in 1 .. stride |-> pool[SlicePos(slice, i)]]

\* bag[<<slice, 0>>] + ... + bag[<<slice, v>>]
RECURSIVE UpTo(_, _, _)
UpTo(bag, slice, v) ==
    IF v < 0 THEN 0 ELSE bag[<<slice, v>>] + UpTo(bag, slice, v - 1)
Total(bag) == UpTo(bag, 0, MaxWrites) + UpTo(bag, 1, MaxWrites)
\* Reads whose count has not been given back: in flight, held or leaked.
Outstanding == Total(reading) + Total(guards) + leaked[0] + leaked[1]
\* Reads (in flight, returned or leaked) that claimed `slice`.
BoundTo(slice) ==
    UpTo(reading, slice, MaxWrites) + UpTo(guards, slice, MaxWrites) + leaked[slice]
GuardsOn(slice) == UpTo(guards, slice, MaxWrites)

\* ------------------------------------------------------------ new()
\* Mutant of new: the given vector is placed in the second slice.
new_second_slice(initial) ==
    /\ data = [i \in 1 .. 2 * stride |->
                 IF i <= stride THEN 0 ELSE initial[i - stride]]
    /\ status = 0
    /\ currently_writing = FALSE

\* lib.rs 109-119: the pool is `data` followed by stride defaults
new(initial) ==
    /\ data = [i \in 1 .. 2 * stride |->
                 IF i <= stride THEN initial[i] ELSE 0]
    /\ status = 0
    /\ currently_writing = FALSE

Init ==
    /\ \E initial \in SeqsOfLen(stride) :
         /\ new(initial)
         /\ pubdata = initial
    /\ wpc = [w \in Writers |-> "idle"]
    /\ wdata = [w \in Writers |-> <<>>]
    /\ next_i = [w \in Writers |-> 0]
    /\ wk = [w \in Writers |-> 0]
    /\ reading = [k \in Kinds |-> 0]
    /\ guards = [k \in Kinds |-> 0]
    /\ origin = [i \in 1 .. 2 * stride |-> IF i <= stride THEN 0 ELSE DefaultFill]
    /\ flips = 0
    /\ nwrites = 0
    /\ leaked = [slice \in Slices |-> 0]
    /\ status1 = 0

\* lib.rs 122-124: len() is the stride
len == stride

\* ------------------------------------------------------------ read()
\* lib.rs 132-140: fetch_add(INC_ALL_SLICES) and the slice of the snapshot
read_fetch_add ==
    /\ Outstanding < MaxReads
    /\ LET snapshot == status
           current_slice == current_slice_of(snapshot)
       IN /\ status' = WrappingAdd(status, INC_ALL_SLICES)
          /\ reading' = [reading EXCEPT ![<<current_slice, flips>>] = @ + 1]
    /\ UNCHANGED <<data, currently_writing, wpc, wdata, next_i, wk,
                   guards, origin, flips, pubdata, nwrites>>
    /\ status1' = one_step_claim(status1)
    /\ UNCHANGED leaked

\* Mutant of read_fetch_sub: the read waits while a write holds the gate.
read_fetch_sub_waits(kind) ==
    /\ reading[kind] > 0
    /\ currently_writing = FALSE
    /\ status' = WrappingSub(status, inc_other_slice(kind[1]))
    /\ reading' = [reading EXCEPT ![kind] = @ - 1]
    /\ guards' = [guards EXCEPT ![kind] = @ + 1]
    /\ UNCHANGED <<data, currently_writing, wpc, wdata, next_i, wk,
                   origin, flips, pubdata, nwrites>>
    /\ UNCHANGED <<leaked, status1>>

\* lib.rs 145-168: fetch_sub(inc_other_slice) and the guard
read_fetch_sub(kind) ==
    /\ reading[kind] > 0
    /\ status' = WrappingSub(status, inc_other_slice(kind[1]))
    /\ reading' = [reading EXCEPT ![kind] = @ - 1]
    /\ guards' = [guards EXCEPT ![kind] = @ + 1]
    /\ UNCHANGED <<data, currently_writing, wpc, wdata, next_i, wk,
                   origin, flips, pubdata, nwrites>>
    /\ UNCHANGED <<leaked, status1>>

\* lib.rs 253-264: AtomicSliceReadGuard::drop
drop(kind) ==
    /\ guards[kind] > 0
    /\ status' = WrappingSub(status, inc_slice(kind[1]))
    /\ guards' = [guards EXCEPT ![kind] = @ - 1]
    /\ UNCHANGED <<data, currently_writing, wpc, wdata, next_i, wk,
                   reading, origin, flips, pubdata, nwrites>>
    /\ status1' = one_step_release(status1, kind[1])
    /\ UNCHANGED leaked

\* std::mem::forget(guard): the guard goes away and drop never runs
leak(kind) ==
    /\ guards[kind] > 0
    /\ guards' = [guards EXCEPT ![kind] = @ - 1]
    /\ leaked' = [leaked EXCEPT ![kind[1]] = @ + 1]
    /\ UNCHANGED <<data, status, currently_writing, wpc, wdata, next_i, wk,
                   reading, origin, flips, pubdata, nwrites, status1>>

\* ----------------------------------------------------------- write()
\* Mutant of write_call: the gate is taken before the length is checked, and
\* the panic leaves it locked.
write_call_gate_first(w, input) ==
    /\ wpc[w] = "idle"
    /\ IF Len(input) # stride
       THEN /\ currently_writing = FALSE
            /\ currently_writing' = TRUE
            /\ wpc' = [wpc EXCEPT ![w] = "panicked"]
            /\ UNCHANGED <<wdata, nwrites>>
       ELSE /\ nwrites < MaxWrites
            /\ wpc' = [wpc EXCEPT ![w] = "gate"]
            /\ wdata' = [wdata EXCEPT ![w] = input]
            /\ nwrites' = nwrites + 1
            /\ UNCHANGED currently_writing
    /\ UNCHANGED <<data, status, next_i, wk,
                   reading, guards, origin, flips, pubdata>>
    /\ UNCHANGED <<leaked, status1>>

\* lib.rs 177-180: the length check; a wrong length panics
write_call(w, input) ==
    /\ wpc[w] = "idle"
    /\ IF Len(input) # stride
       THEN /\ wpc' = [wpc EXCEPT ![w] = "panicked"]
            /\ UNCHANGED <<wdata, nwrites>>
       ELSE /\ nwrites < MaxWrites
            /\ wpc' = [wpc EXCEPT ![w] = "gate"]
            /\ wdata' = [wdata EXCEPT ![w] = input]
            /\ nwrites' = nwrites + 1
    /\ UNCHANGED <<data, status, currently_writing, next_i, wk,
                   reading, guards, origin, flips, pubdata>>
    /\ UNCHANGED <<leaked, status1>>

\* Mutant of write_acquire: the gate is found open but not closed.
write_acquire_no_set(w) ==
    /\ wpc[w] = "gate"
    /\ currently_writing = FALSE
    /\ wpc' = [wpc EXCEPT ![w] = "load"]
    /\ UNCHANGED <<data, status, currently_writing, wdata, next_i, wk,
                   reading, guards, origin, flips, pubdata, nwrites>>
    /\ UNCHANGED <<leaked, status1>>

\* Mutant of write_acquire: a plain store of true instead of the
\* compare_exchange loop.
write_acquire_store(w) ==
    /\ wpc[w] = "gate"
    /\ currently_writing' = TRUE
    /\ wpc' = [wpc EXCEPT ![w] = "load"]
    /\ UNCHANGED <<data, status, wdata, next_i, wk,
                   reading, guards, origin, flips, pubdata, nwrites>>
    /\ UNCHANGED <<leaked, status1>>

\* lib.rs 183-189: compare_exchange(false, true) succeeds
write_acquire(w) ==
    /\ wpc[w] = "gate"
    /\ currently_writing = FALSE
    /\ currently_writing' = TRUE
    /\ wpc' = [wpc EXCEPT ![w] = "load"]
    /\ UNCHANGED <<data, status, wdata, next_i, wk,
                   reading, guards, origin, flips, pubdata, nwrites>>
    /\ UNCHANGED <<leaked, status1>>

\* Mutant of write_load: the writer targets the slice it found current.
write_load_same(w) ==
    /\ wpc[w] = "load"
    /\ LET i == current_slice_of(status)
       IN next_i' = [next_i EXCEPT ![w] = i]
    /\ wpc' = [wpc EXCEPT ![w] = "drain"]
    /\ UNCHANGED <<data, status, currently_writing, wdata, wk,
                   reading, guards, origin, flips, pubdata, nwrites>>
    /\ UNCHANGED <<leaked, status1>>

\* lib.rs 192-195: load the status, next_i = i ^ 1
write_load(w) ==
    /\ wpc[w] = "load"
    /\ LET i == current_slice_of(status)
       IN next_i' = [next_i EXCEPT ![w] = BitXor(i, 1)]
    /\ wpc' = [wpc EXCEPT ![w] = "drain"]
    /\ UNCHANGED <<data, status, currently_writing, wdata, wk,
                   reading, guards, origin, flips, pubdata, nwrites>>
    /\ UNCHANGED <<leaked, status1>>

\* Mutant of write_drain: the loop waits for the current slice's use count.
write_drain_current(w) ==
    /\ wpc[w] = "drain"
    /\ slice_use_count(BitXor(next_i[w], 1), status) = 0
    /\ wpc' = [wpc EXCEPT ![w] = "copy"]
    /\ wk' = [wk EXCEPT ![w] = 0]
    /\ UNCHANGED <<data, status, currently_writing, wdata, next_i,
                   reading, guards, origin, flips, pubdata, nwrites>>
    /\ UNCHANGED <<leaked, status1>>

\* lib.rs 198-205: the load that finds the next slice unused
write_drain(w) ==
    /\ wpc[w] = "drain"
    /\ slice_use_count(next_i[w], status) = 0
    /\ wpc' = [wpc EXCEPT ![w] = "copy"]
    /\ wk' = [wk EXCEPT ![w] = 0]
    /\ UNCHANGED <<data, status, currently_writing, wdata, next_i,
                   reading, guards, origin, flips, pubdata, nwrites>>
    /\ UNCHANGED <<leaked, status1>>

\* Mutant of write_copy: the loop is left after one element.
write_copy_once(w) ==
    /\ wpc[w] = "copy"
    /\ LET offset == next_i[w] * stride
           i == wk[w]
       IN /\ data' = [data EXCEPT ![offset + i + 1] = wdata[w][i + 1]]
          /\ origin' = [origin EXCEPT ![offset + i + 1] = flips + 1]
          /\ wk' = [wk EXCEPT ![w] = i + 1]
          /\ wpc' = [wpc EXCEPT ![w] = "flip"]
    /\ UNCHANGED <<status, currently_writing, wdata, next_i,
                   reading, guards, flips, pubdata, nwrites>>
    /\ UNCHANGED <<leaked, status1>>

\* Mutant of write_copy: every element is written from data[0].
write_copy_first(w) ==
    /\ wpc[w] = "copy"
    /\ LET offset == next_i[w] * stride
           i == wk[w]
       IN /\ data' = [data EXCEPT ![offset + i + 1] = wdata[w][1]]
          /\ origin' = [origin EXCEPT ![offset + i + 1] = flips + 1]
          /\ wk' = [wk EXCEPT ![w] = i + 1]
          /\ wpc' = [wpc EXCEPT ![w] = IF i + 1 = stride THEN "flip" ELSE "copy"]
    /\ UNCHANGED <<status, currently_writing, wdata, next_i,
                   reading, guards, flips, pubdata, nwrites>>
    /\ UNCHANGED <<leaked, status1>>

\* lib.rs 208-217: one iteration of the copy loop
write_copy(w) ==
    /\ wpc[w] = "copy"
    /\ LET offset == next_i[w] * stride
           i == wk[w]
       IN /\ data' = [data EXCEPT ![offset + i + 1] = wdata[w][i + 1]]
          /\ origin' = [origin EXCEPT ![offset + i + 1] = flips + 1]
          /\ wk' = [wk EXCEPT ![w] = i + 1]
          /\ wpc' = [wpc EXCEPT ![w] = IF i + 1 = stride THEN "flip" ELSE "copy"]
    /\ UNCHANGED <<status, currently_writing, wdata, next_i,
                   reading, guards, flips, pubdata, nwrites>>
    /\ UNCHANGED <<leaked, status1>>

\* lib.rs 220: fetch_xor(1)
write_flip(w) ==
    /\ wpc[w] = "flip"
    /\ status' = BitXor(status, 1)
    /\ flips' = flips + 1
    /\ pubdata' = wdata[w]
    /\ wpc' = [wpc EXCEPT ![w] = "release"]
    /\ UNCHANGED <<data, currently_writing, wdata, next_i, wk,
                   reading, guards, origin, nwrites>>
    /\ status1' = BitXor(status1, 1)
    /\ UNCHANGED leaked

\* Mutant of write_release: the call returns and leaves the gate closed.
write_release_keeps_gate(w) ==
    /\ wpc[w] = "release"
    /\ wpc' = [wpc EXCEPT ![w] = "idle"]
    /\ wdata' = [wdata EXCEPT ![w] = <<>>]
    /\ UNCHANGED <<data, status, currently_writing, next_i, wk,
                   reading, guards, origin, flips, pubdata, nwrites>>
    /\ UNCHANGED <<leaked, status1>>

\* lib.rs 224-226: compare_exchange(true, false).unwrap()
write_release(w) ==
    /\ wpc[w] = "release"
    /\ IF currently_writing = TRUE
       THEN /\ currently_writing' = FALSE
            /\ wpc' = [wpc EXCEPT ![w] = "idle"]
       ELSE /\ wpc' = [wpc EXCEPT ![w] = "panicked"]
            /\ UNCHANGED currently_writing
    /\ wdata' = [wdata EXCEPT ![w] = <<>>]
    /\ UNCHANGED <<data, status, next_i, wk,
                   reading, guards, origin, flips, pubdata, nwrites>>
    /\ UNCHANGED <<leaked, status1>>

ReadStep ==
    \/ read_fetch_add
    \/ \E kind \in Kinds : read_fetch_sub(kind)
    \/ \E kind \in Kinds : drop(kind)

\* The steps of a write() call after the caller has entered it.
write_run(w) ==
    \/ write_acquire(w)
    \/ write_load(w)
    \/ write_drain(w)
    \/ write_copy(w)
    \/ write_flip(w)
    \/ write_release(w)

WriteStep(w) ==
    \/ \E input \in WriteInputs : write_call(w, input)
    \/ write_run(w)

Next == ReadStep \/ \E w \in Writers : WriteStep(w)

Spec == Init /\ [][Next]_vars

\* Every thread keeps being scheduled: the step a thread is at, if it stays
\* possible, is eventually taken.  Nothing obliges a caller to start a call
\* or to drop a guard.
Fairness ==
    /\ \A w \in Writers : WF_vars(write_run(w))
    /\ \A kind \in Kinds : WF_vars(read_fetch_sub(kind))

\* The callers of test.rs: the slice is built from a default-filled vector and
\* every write() is given a slice of the right length.
InitHarness ==
    /\ Init
    /\ data = [i \in 1 .. 2 * stride |-> 0]

NextHarness ==
    \/ ReadStep
    \/ \E w \in Writers :
         \/ \E input \in SeqsOfLen(stride) : write_call(w, input)
         \/ write_run(w)

FairSpec == InitHarness /\ [][NextHarness]_vars /\ Fairness

\* Callers that release every guard: test.rs drops each guard at the end of
\* the reader's loop body.
QuiesceSpec ==
    /\ InitHarness
    /\ [][NextHarness]_vars
    /\ Fairness
    /\ \A kind \in Kinds : WF_vars(drop(kind))

\* Callers that may also leak guards.
NextLeak == Next \/ \E kind \in Kinds : leak(kind)

LeakSpec == Init /\ [][NextLeak]_vars

\* ------------------------------------------------------------ claims
Copying(w) == wpc[w] = "copy"
PastGate(w) == wpc[w] \in {"load", "drain", "copy", "flip", "release"}
\* The elements of `slice` were all stored by write number `id`
\* (0: the vector given to new()).
AllFrom(slice, id) == \A i \in 1 .. stride : origin[SlicePos(slice, i)] = id

\* C1: every guard returned by read() shows, while it is held, elements that
\* were all stored by one write() whose flip has happened, or all by new():
\* never a mixture of two writes.
NoTornRead ==
    \A slice \in Slices :
        GuardsOn(slice) > 0 => \E id \in 0 .. flips : AllFrom(slice, id)

\* C2: while a writer is in its copy loop (past the drain loop, before the
\* flip) no read, in flight or returned, is bound to the slice it copies into.
NoMutationUnderLease ==
    \A w \in Writers : Copying(w) => BoundTo(next_i[w]) = 0

\* C3: at most one write() call is between its successful gate
\* compare_exchange and its release of the gate.
MutualExclusion ==
    Cardinality({w \in Writers : PastGate(w)}) <= 1

C3Witness ==
    \E w1, w2 \in Writers : Copying(w1) /\ wk[w1] = 1 /\ wpc[w2] = "gate"

\* C4: a guard whose read() did its fetch_add after the k-th flip and before
\* the (k+1)-th shows exactly the elements stored by write number k, for as
\* long as it is held.
PublicationPoint ==
    \A kind \in Kinds : guards[kind] > 0 => AllFrom(kind[1], kind[2])

\* C5: a guard of a read() that began after the latest flip (no write
\* published since) shows exactly the data given to that write(), element for
\* element, whichever slice is current.
RoundTrip ==
    \A kind \in Kinds :
        (guards[kind] > 0 /\ kind[2] = flips /\ flips >= 1)
            => SliceOf(data, kind[1]) = pubdata

C5Witness ==
    /\ flips = 2
    /\ guards[<<0, 2>>] > 0
    /\ pubdata = [i \in 1 .. stride |-> IF i = 1 THEN 1 ELSE 0]
    /\ SliceOf(data, 0) = pubdata
    /\ \A w \in Writers : ~PastGate(w)

\* C6: read() never waits: its fetch_add can always be taken, and every read
\* that has done its fetch_add can take its fetch_sub, whatever the writers
\* and the other reads are doing.
ReadWaitFree ==
    /\ Outstanding < MaxReads => ENABLED read_fetch_add
    /\ \A kind \in Kinds : reading[kind] > 0 => ENABLED read_fetch_sub(kind)

C6Witness ==
    /\ currently_writing
    /\ \E w1, w2 \in Writers :
         /\ wpc[w1] = "drain" /\ slice_use_count(next_i[w1], status) > 0
         /\ wpc[w2] = "gate"
    /\ Total(reading) >= 2
    /\ Total(guards) >= 1

\* C7: a write() call with a slice of the wrong length panics and changes
\* neither the pool, nor the status word, nor the gate.
LengthMismatchNoMutation ==
    [][\A w \in Writers :
          (wpc[w] = "idle" /\ wpc'[w] = "panicked")
              => UNCHANGED <<data, status, currently_writing,
                             reading, guards, origin, flips, pubdata>>]_vars

C7Witness ==
    \E w1, w2 \in Writers :
        /\ wpc[w1] = "panicked"
        /\ wpc[w2] = "release"
        /\ flips = 2
        /\ Total(guards) >= 1

\* C9: the status word never has a bit set outside the selector bit and the
\* two use counts.
StatusValid == valid_status(status)

\* C10 as stated: the use count of each slice equals the number of
\* outstanding reads bound to that slice.
UseCountIsLeases ==
    \A slice \in Slices : slice_use_count(slice, status) = BoundTo(slice)

\* C10 amended: a read counts on both slices between its fetch_add and its
\* fetch_sub and on its own slice until its guard is dropped (for ever, if the
\* guard is leaked); the status word
\* is the selector bit plus these two counts at their positions, modulo 2^64.
UseCountMeaning ==
    status = ((flips % 2)
              + SLICE_1_INC * (GuardsOn(0) + leaked[0] + Total(reading))
              + SLICE_2_INC * (GuardsOn(1) + leaked[1] + Total(reading))) % WORD

C10Witness ==
    /\ Total(reading) >= 1
    /\ GuardsOn(0) >= 1
    /\ GuardsOn(1) >= 1
    /\ slice_use_count(0, status) = GuardsOn(0) + Total(reading)
    /\ slice_use_count(1, status) = GuardsOn(1) + Total(reading)

\* C8 as stated: a write() that holds the gate and waits in the drain loop
\* returns, once no read is bound to the slice it waits for, however many
\* read() calls keep starting and finishing.
WriteProgress ==
    \A w \in Writers :
        (wpc[w] = "drain" /\ BoundTo(next_i[w]) = 0) ~> (wpc[w] = "idle")

\* C8 amended: it returns if, in addition, from some point on no read() call
\* is between its fetch_add and its fetch_sub.
WriteProgressQuiet ==
    <>[](Total(reading) = 0) => WriteProgress

C8Witness ==
    \E w \in Writers :
        /\ wpc[w] = "release"
        /\ flips = 2
        /\ GuardsOn(0) >= 1
        /\ GuardsOn(1) >= 1

\* The pool positions of `slice`.
Positions(slice) == {SlicePos(slice, i) : i \in 1 .. stride}
\* The positions that the step stores into.
Stored == {p \in 1 .. 2 * stride : data'[p] # data[p] \/ origin'[p] # origin[p]}

\* C11: every store into the pool is made by a writer that holds the write
\* gate and goes to the slice that the selector bit does not select at that
\* moment; from a writer's status load to its flip the selector bit stays the
\* one it loaded, so that its target stays the other slice.
CurrentNeverMutated ==
    /\ [](\A w \in Writers :
            wpc[w] \in {"drain", "copy", "flip"} =>
                /\ currently_writing = TRUE
                /\ next_i[w] = BitXor(current_slice_of(status), 1))
    /\ [][Stored # {} =>
            \E w \in Writers :
                /\ Copying(w)
                /\ \A w2 \in Writers \ {w} : ~PastGate(w2)
                /\ currently_writing = TRUE
                /\ Stored \subseteq Positions(next_i[w])
                /\ Stored \cap Positions(current_slice_of(status)) = {}
                /\ current_slice_of(status') = current_slice_of(status)]_vars

\* The second write stores its second element into slice 0 while slice 1 is
\* current and read.
C11Witness ==
    \E w \in Writers :
        /\ Copying(w)
        /\ wk[w] = 1
        /\ flips = 1
        /\ next_i[w] = 0
        /\ GuardsOn(1) >= 1
        /\ Total(reading) >= 1

\* C12: once a guard has been leaked, the status word is still valid in every
\* later state, the selector bit and both use counts are what they are without
\* the leak except for the one count the leaked guard keeps, and every guard
\* handed out shows one whole published write (or the initial vector).
LeakIsContained ==
    leaked[0] + leaked[1] > 0 =>
        /\ valid_status(status)
        /\ current_slice_of(status) = flips % 2
        /\ \A slice \in Slices :
              slice_use_count(slice, status)
                  = GuardsOn(slice) + Total(reading) + leaked[slice]
        /\ \A kind \in Kinds : guards[kind] > 0 => AllFrom(kind[1], kind[2])

\* C13: new(D) gives status 0, an open write gate, D in slice 0 and defaults
\* in slice 1 (also after reads have come and gone, as long as no write() was
\* called); a guard obtained before the first flip shows exactly D, whose
\* length is len().
Construction ==
    /\ (nwrites = 0 /\ Outstanding = 0) =>
          /\ status = 0
          /\ currently_writing = FALSE
          /\ SliceOf(data, 0) = pubdata
          /\ SliceOf(data, 1) = [i \in 1 .. stride |-> 0]
    /\ flips = 0 =>
          /\ Len(pubdata) = len
          /\ \A kind \in Kinds :
                guards[kind] > 0 =>
                    /\ kind = <<0, 0>>
                    /\ SliceOf(data, kind[1]) = pubdata

\* A guard on the initial vector <<1, 0>> while the first write, of <<0, 1>>,
\* is half copied.
C13Witness ==
    \E w \in Writers :
        /\ flips = 0
        /\ guards[<<0, 0>>] > 0
        /\ pubdata = <<1, 0>>
        /\ Copying(w)
        /\ wk[w] = 1
        /\ wdata[w] = <<0, 1>>

\* C14: the selector bit changes only in the fetch_xor step of the write()
\* that holds the gate, after that call has stored all its elements into the
\* target slice; a step of read() or of a guard (fetch_add, fetch_sub, drop)
\* changes neither the selector bit nor the pool nor the write gate.
SelectorFrame ==
    [][/\ current_slice_of(status') # current_slice_of(status) =>
             \E w \in Writers :
                 /\ wpc[w] = "flip"
                 /\ wpc'[w] = "release"
                 /\ currently_writing = TRUE
                 /\ \A w2 \in Writers \ {w} : ~PastGate(w2)
                 /\ wk[w] = stride
                 /\ AllFrom(next_i[w], flips + 1)
                 /\ SliceOf(data, next_i[w]) = wdata[w]
       /\ (reading' # reading \/ guards' # guards) =>
             /\ current_slice_of(status') = current_slice_of(status)
             /\ data' = data
             /\ currently_writing' = currently_writing]_vars

\* A flip has just happened while a guard is held and a read is in flight.
C14Witness ==
    \E w \in Writers :
        /\ wpc[w] = "release"
        /\ flips = 1
        /\ GuardsOn(0) >= 1
        /\ Total(reading) >= 1

\* The reads between fetch_add and fetch_sub that claimed `slice`.
ReadingOn(slice) == BoundTo(slice) - GuardsOn(slice) - leaked[slice]

\* C15: read()'s two steps (increment both use counts, then decrement the
\* count of the other slice) against the one-step protocol that increments
\* only the current slice's count, both driven by the same fetch_add, drop
\* and flip events: the selector bits agree in every state, so that every
\* read binds the same slice and shows the same pool elements in both, and
\* whenever no read is between its two steps the two status words are equal
\* (in general they differ by the decrements that the reads in flight still
\* owe).
TwoStepIsOneStep ==
    /\ [](/\ current_slice_of(status1) = current_slice_of(status)
          /\ Total(reading) = 0 => status = status1
          /\ status1 = (status + WORD * MaxReads
                           - SLICE_2_INC * ReadingOn(0)
                           - SLICE_1_INC * ReadingOn(1)) % WORD)
    /\ [][\A kind \in Kinds :
            reading'[kind] > reading[kind] =>
                /\ kind[1] = current_slice_of(status1)
                /\ slice_use_count(kind[1], status1')
                       = (slice_use_count(kind[1], status1) + 1) % (MaxCount + 1)
                /\ slice_use_count(1 - kind[1], status1')
                       = slice_use_count(1 - kind[1], status1)]_vars

\* Guards on both slices, reads in flight, and afterwards the same state with
\* no read in flight.
C15Witness ==
    /\ flips = 1
    /\ GuardsOn(0) >= 1
    /\ GuardsOn(1) >= 1
    /\ Total(reading) = 0
    /\ status1 = 1 + SLICE_1_INC * GuardsOn(0) + SLICE_2_INC * GuardsOn(1)

\* C16: from a read's fetch_add until its guard is released, the use count of
\* the slice it is bound to is at least 1 (so that the count > 0 assertions
\* of read() and drop hold and no fetch_sub is applied to a count of 0).
ClaimedStaysCounted ==
    /\ \A slice \in Slices :
          BoundTo(slice) > 0 => slice_use_count(slice, status) >= 1
    /\ \A slice \in Slices :
          ReadingOn(slice) > 0 => slice_use_count(1 - slice, status) >= 1

\* The width of a use-count field (lib.rs: 16).
CountBits == 2 * ByteBits

\* C17: while at most 2^w - 1 reads are outstanding (in flight, held or
\* leaked), w the width of a use-count field, each field holds exactly the
\* number of reads that count on it, with no carry out of it and no borrow
\* into it: the status word is a valid one, its selector bit is the parity
\* of the flips, and a slice with an outstanding read never reads as
\* use count 0.
NoCarryBelowMax ==
    Outstanding <= 2 ^ CountBits - 1 =>
        /\ valid_status(status)
        /\ status = (flips % 2)
                    + SLICE_1_INC * (GuardsOn(0) + leaked[0] + Total(reading))
                    + SLICE_2_INC * (GuardsOn(1) + leaked[1] + Total(reading))
        /\ \A slice \in Slices :
              /\ slice_use_count(slice, status)
                    = GuardsOn(slice) + leaked[slice] + Total(reading)
              /\ BoundTo(slice) > 0 => slice_use_count(slice, status) >= 1

\* The largest number of outstanding reads that the fields can count, with
\* guards on both slices and a read in flight.
C17Witness ==
    /\ Outstanding = 2 ^ CountBits - 1
    /\ GuardsOn(0) >= 1
    /\ GuardsOn(1) >= 1
    /\ Total(reading) >= 1

\* C18: while a read is bound (from its fetch_add to the release of its
\* guard) the selector flips at most once, so that it is bound to the current
\* slice or to the one published just before; a write() that targets the
\* slice of a bound read does not get past its drain loop.
OneFlipPerLease ==
    /\ \A kind \in Kinds :
          reading[kind] + guards[kind] > 0 =>
              /\ flips - kind[2] <= 1
              /\ (kind[1] = current_slice_of(status)) <=> (kind[2] = flips)
    /\ \A w \in Writers :
          wpc[w] \in {"copy", "flip"} => BoundTo(next_i[w]) = 0

\* No call is under way and no guard is left: every write() has returned, the
\* gate is open and the status word is just the selector bit, the parity of
\* the writes that completed.
Quiescent ==
    /\ \A w \in Writers : wpc[w] = "idle"
    /\ currently_writing = FALSE
    /\ Outstanding = 0
    /\ slice_use_count(0, status) = 0
    /\ slice_use_count(1, status) = 0
    /\ status = flips % 2

\* C19: if only finitely many read() calls are made (write() calls are
\* finitely many in every behaviour) and every guard is dropped, then under
\* fair scheduling the system comes to rest in a quiescent state.
Quiescence ==
    []<><<read_fetch_add>>_vars \/ <>[]Quiescent

\* At rest after two completed writes.
C19Witness ==
    /\ Quiescent
    /\ flips = 2
    /\ nwrites = 2
    /\ AllFrom(0, 2)
    /\ AllFrom(1, 1)

\* C20: whenever a write() is at its release step the gate is closed, and it
\* was closed by that call (no other call is past the gate); the step opens
\* the gate and the call returns: compare_exchange(true, false) succeeds and
\* the unwrap never panics.
GateReleaseSucceeds ==
    /\ [](\A w \in Writers :
            wpc[w] = "release" =>
                /\ currently_writing = TRUE
                /\ \A w2 \in Writers \ {w} : ~PastGate(w2))
    /\ [][\A w \in Writers :
            (wpc[w] = "release" /\ wpc'[w] # "release") =>
                /\ currently_writing' = FALSE
                /\ wpc'[w] = "idle"]_vars

\* One writer is at its release step while the other spins at the gate.
C20Witness ==
    \E w \in Writers :
        /\ wpc[w] = "release"
        /\ \E w2 \in Writers \ {w} : wpc[w2] = "gate"
        /\ flips = 1
        /\ Outstanding >= 1

====
